---- MODULE Spec2Model ----
(***************************************************************************)
(* Model of github_review/server.py: the PR URL parser, the PR content     *)
(* fetcher and the two request handlers (handle_call_tool and              *)
(* handle_get_prompt).                                                     *)
(*                                                                         *)
(* Text is modelled as a sequence of tokens.  A URL is a sequence of       *)
(* tokens in which the token "/" is the path separator; every other token  *)
(* stands for a piece of text that holds no "/".  A digit token stands for *)
(* one decimal digit.                                                      *)
(***************************************************************************)
EXTENDS Integers, Sequences, FiniteSets, TLC

VARIABLES pc, handler, name, arguments, pr_url, parsed, events,
          comments, review_comments, reviews, files, raised, propagated,
          outcome

vars == <<pc, handler, name, arguments, pr_url, parsed, events,
          comments, review_comments, reviews, files, raised, propagated,
          outcome>>

\* ------------------------------------------------------------------ bounds
MaxUrlLen == 8
MaxItems == 2

\* ------------------------------------------------------------- text helpers
Slash == "/"

Digits == {"0", "1", "2", "3", "4", "5", "6", "7", "8", "9"}

DigitVal(d) ==
    CASE d = "0" -> 0 [] d = "1" -> 1 [] d = "2" -> 2 [] d = "3" -> 3
      [] d = "4" -> 4 [] d = "5" -> 5 [] d = "6" -> 6 [] d = "7" -> 7
      [] d = "8" -> 8 [] d = "9" -> 9

\* str.split('/'): one more part than there are separators, "" gives [""]
RECURSIVE Split(_)
Split(s) ==
    IF s = <<>> THEN << <<>> >>
    ELSE LET rest == Split(Tail(s)) IN
         IF Head(s) = Slash
         THEN << <<>> >> \o rest
         ELSE << <<Head(s)>> \o Head(rest) >> \o Tail(rest)

\* int(text): IntOk says whether int() accepts the text, DigitsValue is
\* its value.  (Signs, blanks and underscores are not among the tokens of
\* the model, so int() accepts exactly the non-empty runs of digits.)
RECURSIVE DigitsValue(_, _)
DigitsValue(seg, acc) ==
    IF seg = <<>> THEN acc
    ELSE DigitsValue(Tail(seg), 10 * acc + DigitVal(Head(seg)))

IntOk(seg) == seg # <<>> /\ \A i \in 1..Len(seg) : seg[i] \in Digits

\* ------------------------------------------------------------------ errors
NoError == [type |-> "none", msg |-> <<>>]

ValueError(m) == [type |-> "ValueError", msg |-> m]

\* str(e)
Str(e) == e.msg

InvalidFormat == "Invalid PR URL format: "

\* parse_pr_url reading parts[-3] as the first segment it needs, so that
\* three segments are enough
parse_pr_url_three(u) ==
    LET parts == Split(u)
        n == Len(parts)
    IN  IF n < 3
        THEN [ok |-> FALSE,
              err |-> ValueError(<<InvalidFormat, "list index out of range">>)]
        ELSE IF ~IntOk(parts[n])
        THEN [ok |-> FALSE,
              err |-> ValueError(<<InvalidFormat, "invalid literal for int()">>)]
        ELSE [ok |-> TRUE, owner |-> parts[n - 2], repo |-> parts[n - 2],
              pr_number |-> DigitsValue(parts[n], 0)]

\* ----------------------------------------------------------- parse_pr_url
\* parts[-4], parts[-3], int(parts[-1]); IndexError and ValueError both
\* leave as ValueError("Invalid PR URL format: ...")
parse_pr_url(u) ==
    LET parts == Split(u)
        n == Len(parts)
    IN  IF n < 4
        THEN [ok |-> FALSE,
              err |-> ValueError(<<InvalidFormat, "list index out of range">>)]
        ELSE IF ~IntOk(parts[n])
        THEN [ok |-> FALSE,
              err |-> ValueError(<<InvalidFormat, "invalid literal for int()">>)]
        ELSE [ok |-> TRUE, owner |-> parts[n - 3], repo |-> parts[n - 2],
              pr_number |-> DigitsValue(parts[n], 0)]

NotParsed == [ok |-> FALSE, err |-> NoError]

\* --------------------------------------------------- collaborator (GitHub)
\* Failures a collaborator call can end in: API failure, not found,
\* rate limited, bad credentials.
GithubErrors ==
    {[type |-> "GithubException", msg |-> <<"500 Server Error">>],
     [type |-> "UnknownObjectException", msg |-> <<"404 Not Found">>],
     [type |-> "RateLimitExceededException", msg |-> <<"403 rate limit">>],
     [type |-> "BadCredentialsException", msg |-> <<"401 Bad credentials">>]}

NoneText == "None"

Falsy(v) == v = NoneText \/ v = ""

UserNames == <<"alice", "bob", "carol", "dave">>
BodyTexts == <<"looks good", "please fix", "nit", "why?">>
PathNames == <<"a.py", "b.py", "c.py", "d.py">>
Stamps == <<"2024-01-01", "2024-01-02", "2024-01-03", "2024-01-04">>
ReviewStates == <<"APPROVED", "CHANGES_REQUESTED", "COMMENTED", "DISMISSED">>

\* the pull request repo.get_pull answers with
PR == [title |-> "Add widget", body |-> "adds the widget", state |-> "open",
       mergeable |-> "True", mergeable_state |-> "clean",
       additions |-> "10", deletions |-> "2", changed_files |-> "3",
       labels |-> <<"bug", "ui">>,
       created_at |-> "2023-12-30", updated_at |-> "2023-12-31",
       user |-> "octocat"]

\* the i-th element pr.get_issue_comments() yields
IssueComment(i) ==
    [user |-> UserNames[i], body |-> BodyTexts[i],
     created_at |-> Stamps[i], updated_at |-> Stamps[i]]

\* the i-th element pr.get_review_comments() yields
ReviewComment(i) ==
    [user |-> UserNames[i], body |-> BodyTexts[i], path |-> PathNames[i],
     position |-> "7", created_at |-> Stamps[i], updated_at |-> Stamps[i]]

\* the i-th element pr.get_reviews() yields, with or without a body
Review(i, withBody) ==
    [user |-> UserNames[i], state |-> ReviewStates[i],
     body |-> IF withBody THEN BodyTexts[i] ELSE NoneText,
     submitted_at |-> Stamps[i]]

\* the i-th element pr.get_files() yields, with or without a patch
FileChange(i, withPatch) ==
    [filename |-> PathNames[i], status |-> "modified", changes |-> "5",
     patch |-> IF withPatch THEN "@@ -1 +1 @@" ELSE NoneText]

\* the dict get_pr_content returns
Content ==
    [title |-> PR.title, body |-> PR.body, state |-> PR.state,
     mergeable |-> PR.mergeable, mergeable_state |-> PR.mergeable_state,
     files |-> files, additions |-> PR.additions,
     deletions |-> PR.deletions, changed_files |-> PR.changed_files,
     comments |-> comments, review_comments |-> review_comments,
     reviews |-> reviews, labels |-> PR.labels,
     created_at |-> PR.created_at, updated_at |-> PR.updated_at,
     author |-> PR.user]

\* ------------------------------------------------------------- formatting
RECURSIVE Flatten(_)
Flatten(ss) == IF ss = <<>> THEN <<>> ELSE Head(ss) \o Flatten(Tail(ss))

\* sep.join(items), as tokens
RECURSIVE Join(_, _)
Join(items, sep) ==
    IF items = <<>> THEN <<>>
    ELSE IF Len(items) = 1 THEN <<items[1]>>
    ELSE <<items[1], sep>> \o Join(Tail(items), sep)

ReviewsHeader == <<"\nReviews:\n">>
CommentsHeader == <<"\nComments:\n">>
ReviewCommentsHeader == <<"\nReview Comments:\n">>
FilesHeader == <<"\nModified files:\n">>

ReviewLines(r) ==
    << <<"- ", r.user, " (", r.state, ")">> >>
    \o (IF Falsy(r.body) THEN <<>> ELSE << <<"  Comment: ", r.body>> >>)

CommentLines(c) ==
    << <<"- ", c.user, " at ", c.created_at, ":">>, <<"  ", c.body>> >>

ReviewCommentLines(c) ==
    << <<"- ", c.user, " on ", c.path, " at position ", c.position, ":">>,
       <<"  ", c.body>> >>

FileLines(f) ==
    << <<"\nFile: ", f.filename>>, <<"Status: ", f.status>>,
       <<"Changes: ", f.changes, " lines">> >>
    \o (IF Falsy(f.patch) THEN <<>> ELSE << <<"Diff:">>, <<f.patch>> >>)

ReviewsSection(c) ==
    Flatten([i \in 1..Len(c.reviews) |-> ReviewLines(c.reviews[i])])

CommentsSection(c) ==
    Flatten([i \in 1..Len(c.comments) |-> CommentLines(c.comments[i])])

ReviewCommentsSection(c) ==
    Flatten([i \in 1..Len(c.review_comments) |->
                ReviewCommentLines(c.review_comments[i])])

FilesSection(c) ==
    Flatten([i \in 1..Len(c.files) |-> FileLines(c.files[i])])

HeaderLines(c) ==
    << <<"PR Title: ", c.title, "\n">>,
       <<"Author: ", c.author>>,
       <<"State: ", c.state>>,
       <<"Created: ", c.created_at>>,
       <<"Updated: ", c.updated_at, "\n">>,
       <<"Description: ", c.body, "\n">>,
       <<"Changes: +", c.additions, " -", c.deletions, " in ",
         c.changed_files, " files">>,
       <<"Labels: ">> \o Join(c.labels, ", ") \o <<"\n">>,
       <<"Mergeable: ", c.mergeable, " (", c.mergeable_state, ")\n">> >>

\* the formatter with the comments section ahead of the reviews section
FormatOutputSwapped(c) ==
    HeaderLines(c)
    \o <<CommentsHeader>> \o CommentsSection(c)
    \o <<ReviewsHeader>> \o ReviewsSection(c)
    \o <<ReviewCommentsHeader>> \o ReviewCommentsSection(c)
    \o <<FilesHeader>> \o FilesSection(c)

\* the list `output` of handle_call_tool; the text is "\n".join(output)
FormatOutput(c) ==
    HeaderLines(c)
    \o <<ReviewsHeader>> \o ReviewsSection(c)
    \o <<CommentsHeader>> \o CommentsSection(c)
    \o <<ReviewCommentsHeader>> \o ReviewCommentsSection(c)
    \o <<FilesHeader>> \o FilesSection(c)

format_review_history(c) ==
    (IF c.reviews = <<>> THEN <<>>
     ELSE << <<"Reviews:">> >> \o ReviewsSection(c))
    \o (IF c.comments = <<>> THEN <<>>
        ELSE << <<"\nGeneral Comments:">> >>
             \o [i \in 1..Len(c.comments) |->
                    <<"- ", c.comments[i].user, ": ", c.comments[i].body>>])
    \o (IF c.review_comments = <<>> THEN <<>>
        ELSE << <<"\nCode Comments:">> >>
             \o [i \in 1..Len(c.review_comments) |->
                    <<"- ", c.review_comments[i].user, " on ",
                      c.review_comments[i].path, ": ",
                      c.review_comments[i].body>>])

format_file_summary(fs) ==
    Flatten([i \in 1..Len(fs) |->
               << <<"- ", fs[i].filename>>,
                  <<"  Changes: ", fs[i].changes, " lines (",
                    fs[i].status, ")">> >>])

FocusClause(focus) ==
    IF focus # "general" THEN <<" focusing on ", focus>> ELSE <<>>

FocusConcern(focus) ==
    IF focus = "security" THEN "Security implications and vulnerabilities"
    ELSE IF focus = "performance" THEN "Performance implications"
    ELSE "General implementation concerns"

FocusRisk(focus) ==
    IF focus = "security" THEN "Security risks and mitigations"
    ELSE IF focus = "performance" THEN "Performance bottlenecks"
    ELSE "Areas for improvement"

\* the GetPromptResult of the "code-review" prompt
CodeReviewPrompt(c, focus) ==
    [kind |-> "return",
     description |-> <<"Code review for PR">> \o FocusClause(focus),
     text |->
       << <<"Please review this pull request">> \o FocusClause(focus)
            \o <<":">>,
          <<"Title: ", c.title>>,
          <<"Author: ", c.author>>,
          <<"Description:">>,
          <<c.body>>,
          <<"Changes: +", c.additions, " -", c.deletions, " in ",
            c.changed_files, " files">>,
          <<"Previous reviews and comments:">> >>
       \o format_review_history(c)
       \o << <<"Please provide a thorough code review that includes:">>,
             <<"3. ", FocusConcern(focus)>>,
             <<"For each modified file, please analyze:">>,
             <<"- ", FocusRisk(focus)>> >>]

\* the GetPromptResult of the "summarize-pr" prompt
SummarizePrompt(c) ==
    [kind |-> "return",
     description |-> <<"PR summary">>,
     text |->
       << <<"Please provide a concise summary of this pull request:">>,
          <<"Title: ", c.title>>,
          <<"Author: ", c.author>>,
          <<"- Changes: +", c.additions, " -", c.deletions, " in ",
            c.changed_files, " files">>,
          <<"- Status: ", c.state>>,
          <<"- Labels: ">> \o Join(c.labels, ", "),
          <<"Description:">>,
          <<c.body>>,
          <<"Modified Files Overview:">> >>
       \o format_file_summary(c.files)]

\* ---------------------------------------------------------------- requests
ExampleUrl ==
    <<"https:", Slash, Slash, "github.com", Slash, "acme", Slash, "widgets",
      Slash, "pull", Slash, "4", "2">>

IssuesUrl ==
    <<"https:", Slash, Slash, "github.com", Slash, "acme", Slash, "widgets",
      Slash, "issues", Slash, "4", "2">>

UrlSamples ==
    {ExampleUrl, ExampleUrl \o <<Slash>>, ExampleUrl \o <<"?diff=split">>,
     IssuesUrl, <<"acme", Slash, "4", "2">>,
     <<"acme", Slash, "widgets", Slash, "pull", Slash, "abc">>, <<>>}

ToolNames == {"review-pr"}
PromptNames == {"code-review", "summarize-pr"}
Names == ToolNames \cup PromptNames \cup {"bogus"}

Handlers == {"call_tool", "get_prompt"}

\* arguments: None, or a dict
NoArguments == [none |-> TRUE, kv |-> <<>>]

Dict(d) == [none |-> FALSE, kv |-> d]

ArgumentValues ==
    {NoArguments, Dict(<<>>)}
    \cup {Dict([k \in {"pr_url"} |-> u]) : u \in UrlSamples}
    \cup {Dict([pr_url |-> ExampleUrl, focus |-> f]) :
             f \in {"security", "performance", "general"}}
    \cup {Dict([owner |-> "acme", repo |-> "widgets", pr_number |-> "42"]),
          Dict([k \in {"focus"} |-> "security"])}

\* `not arguments`
Empty(a) == a.none \/ DOMAIN a.kv = {}

Has(a, k) == ~a.none /\ k \in DOMAIN a.kv

\* get_pr_content wrapping the exception instead of re-raising it
GetPrContentWraps(e) ==
    [type |-> "RuntimeError",
     msg |-> <<"Error fetching PR content: ">> \o Str(e)]

\* -------------------------------------------------------- exception paths
\* get_pr_content: except Exception: log, raise
GetPrContentExcept(e) == e

\* the except branch answering with what had been fetched so far
CallToolExceptPartial(e) ==
    [kind |-> "return",
     text |-> FormatOutput(Content)
              \o << <<"Error retrieving PR content: ">> \o Str(e) >>]

\* handle_call_tool, review-pr branch: except Exception: return the text
CallToolExcept(e) ==
    [kind |-> "return",
     text |-> << <<"Error retrieving PR content: ">> \o Str(e) >>]

\* handle_get_prompt: except Exception: raise ValueError
GetPromptExcept(e) ==
    [kind |-> "raise",
     err |-> ValueError(<<"Error generating prompt: ">> \o Str(e))]

\* an exception e raised inside get_pr_content, up to the handler's end
HandlerExcept(e) ==
    IF handler = "call_tool" THEN CallToolExcept(GetPrContentExcept(e))
    ELSE GetPromptExcept(GetPrContentExcept(e))

\* a collaborator call that has been made
Called(c) == IF c \in {events[i] : i \in 1..Len(events)} THEN events
             ELSE Append(events, c)

\* the pr_url test as `pr_url is None` instead of `not pr_url`
CallToolValidateIsNone(n, a) ==
    IF Empty(a)
    THEN [ok |-> FALSE, err |-> ValueError(<<"Missing arguments">>)]
    ELSE IF n = "review-pr"
    THEN IF ~Has(a, "pr_url")
         THEN [ok |-> FALSE, err |-> ValueError(<<"Missing PR URL">>)]
         ELSE [ok |-> TRUE, pr_url |-> a.kv["pr_url"]]
    ELSE [ok |-> FALSE, err |-> ValueError(<<"Unknown tool: ", n>>)]

\* the validation building the URL from owner, repo and pr_number
CallToolValidateTriple(n, a) ==
    IF Empty(a)
    THEN [ok |-> FALSE, err |-> ValueError(<<"Missing arguments">>)]
    ELSE IF n = "review-pr"
    THEN IF Has(a, "pr_url") /\ a.kv["pr_url"] # <<>>
         THEN [ok |-> TRUE, pr_url |-> a.kv["pr_url"]]
         ELSE IF Has(a, "owner") /\ Has(a, "repo") /\ Has(a, "pr_number")
         THEN [ok |-> TRUE, pr_url |-> ExampleUrl]
         ELSE [ok |-> FALSE, err |-> ValueError(<<"Missing PR URL">>)]
    ELSE [ok |-> FALSE, err |-> ValueError(<<"Unknown tool: ", n>>)]

\* ---------------------------------------------------------- validation
\* handle_call_tool up to the call of get_pr_content
CallToolValidate(n, a) ==
    IF Empty(a)
    THEN [ok |-> FALSE, err |-> ValueError(<<"Missing arguments">>)]
    ELSE IF n = "review-pr"
    THEN IF ~Has(a, "pr_url") \/ a.kv["pr_url"] = <<>>
         THEN [ok |-> FALSE, err |-> ValueError(<<"Missing PR URL">>)]
         ELSE [ok |-> TRUE, pr_url |-> a.kv["pr_url"]]
    ELSE [ok |-> FALSE, err |-> ValueError(<<"Unknown tool: ", n>>)]

\* the prompt name checked ahead of the fetch
GetPromptValidateNameFirst(n, a) ==
    IF Empty(a) \/ ~Has(a, "pr_url")
    THEN [ok |-> FALSE, err |-> ValueError(<<"Missing PR URL argument">>)]
    ELSE IF n \notin PromptNames
    THEN [ok |-> FALSE, err |-> ValueError(<<"Unknown prompt: ", n>>)]
    ELSE [ok |-> TRUE, pr_url |-> a.kv["pr_url"]]

\* handle_get_prompt up to the call of get_pr_content
GetPromptValidate(n, a) ==
    IF Empty(a) \/ ~Has(a, "pr_url")
    THEN [ok |-> FALSE, err |-> ValueError(<<"Missing PR URL argument">>)]
    ELSE [ok |-> TRUE, pr_url |-> a.kv["pr_url"]]

\* the dispatch with `else` in place of `elif name == "summarize-pr"`
GetPromptDispatchElse(n, a, c) ==
    IF n = "code-review"
    THEN CodeReviewPrompt(c, IF Has(a, "focus") THEN a.kv["focus"]
                             ELSE "general")
    ELSE SummarizePrompt(c)

\* handle_get_prompt after get_pr_content has returned c
GetPromptDispatch(n, a, c) ==
    IF n = "code-review"
    THEN CodeReviewPrompt(c, IF Has(a, "focus") THEN a.kv["focus"]
                             ELSE "general")
    ELSE IF n = "summarize-pr"
    THEN SummarizePrompt(c)
    ELSE GetPromptExcept(ValueError(<<"Unknown prompt: ", n>>))

\* ---------------------------------------------------------------- actions
Init ==
    /\ pc = "idle"
    /\ handler = "none" /\ name = "none"
    /\ arguments = NoArguments
    /\ pr_url = <<>>
    /\ parsed = NotParsed
    /\ events = <<>>
    /\ comments = <<>> /\ review_comments = <<>>
    /\ reviews = <<>> /\ files = <<>>
    /\ raised = NoError /\ propagated = NoError
    /\ outcome = [kind |-> "none"]

\* the transport hands a request to a handler
Receive ==
    /\ pc = "idle"
    /\ \E h \in Handlers, n \in Names, a \in ArgumentValues :
          /\ handler' = h
          /\ name' = n
          /\ arguments' = a
    /\ pc' = "validate"
    /\ UNCHANGED <<pr_url, parsed, events, comments, review_comments,
                   reviews, files, raised, propagated, outcome>>

\* the checks before get_pr_content is called
Validate ==
    /\ pc = "validate"
    /\ LET v == IF handler = "call_tool"
                THEN CallToolValidate(name, arguments)
                ELSE GetPromptValidate(name, arguments)
       IN  IF v.ok
           THEN /\ pr_url' = v.pr_url
                /\ events' = Append(events, "get_pr_content")
                /\ pc' = "parse"
                /\ UNCHANGED outcome
           ELSE /\ outcome' = [kind |-> "raise", err |-> v.err]
                /\ pc' = "done"
                /\ UNCHANGED <<pr_url, events>>
    /\ UNCHANGED <<handler, name, arguments, parsed, comments,
                   review_comments, reviews, files, raised, propagated>>

\* get_pr_content: owner, repo, pr_number = parse_pr_url(pr_url)
ParseUrl ==
    /\ pc = "parse"
    /\ parsed' = parse_pr_url(pr_url)
    /\ events' = Append(events, "parse_pr_url")
    /\ IF parsed'.ok
       THEN /\ pc' = "get_repo"
            /\ UNCHANGED <<propagated, outcome>>
       ELSE /\ propagated' = GetPrContentExcept(parsed'.err)
            /\ outcome' = HandlerExcept(parsed'.err)
            /\ pc' = "done"
    /\ UNCHANGED <<handler, name, arguments, pr_url, comments,
                   review_comments, reviews, files, raised>>

\* a collaborator call that fails with e ends get_pr_content and the handler
Fails(e) ==
    /\ raised' = e
    /\ propagated' = GetPrContentExcept(e)
    /\ outcome' = HandlerExcept(e)
    /\ pc' = "done"

\* g.get_repo(f"{owner}/{repo}")
GetRepo ==
    /\ pc = "get_repo"
    /\ events' = Called("g.get_repo")
    /\ \/ /\ pc' = "get_pull"
          /\ UNCHANGED <<raised, propagated, outcome>>
       \/ \E e \in GithubErrors : Fails(e)
    /\ UNCHANGED <<handler, name, arguments, pr_url, parsed, comments,
                   review_comments, reviews, files>>

\* repo.get_pull(pr_number)
GetPull ==
    /\ pc = "get_pull"
    /\ events' = Called("repo.get_pull")
    /\ \/ /\ pc' = "issue_comments"
          /\ UNCHANGED <<raised, propagated, outcome>>
       \/ \E e \in GithubErrors : Fails(e)
    /\ UNCHANGED <<handler, name, arguments, pr_url, parsed, comments,
                   review_comments, reviews, files>>

\* for comment in pr.get_issue_comments(): one step of the loop
IssueComments ==
    /\ pc = "issue_comments"
    /\ events' = Called("pr.get_issue_comments")
    /\ \/ /\ Len(comments) < MaxItems
          /\ comments' = Append(comments, IssueComment(Len(comments) + 1))
          /\ UNCHANGED <<pc, raised, propagated, outcome>>
       \/ /\ pc' = "review_comments"
          /\ UNCHANGED <<comments, raised, propagated, outcome>>
       \/ /\ \E e \in GithubErrors : Fails(e)
          /\ UNCHANGED comments
    /\ UNCHANGED <<handler, name, arguments, pr_url, parsed,
                   review_comments, reviews, files>>

\* for comment in pr.get_review_comments(): one step of the loop
ReviewComments ==
    /\ pc = "review_comments"
    /\ events' = Called("pr.get_review_comments")
    /\ \/ /\ Len(review_comments) < MaxItems
          /\ review_comments' =
                Append(review_comments,
                       ReviewComment(Len(review_comments) + 1))
          /\ UNCHANGED <<pc, raised, propagated, outcome>>
       \/ /\ pc' = "reviews"
          /\ UNCHANGED <<review_comments, raised, propagated, outcome>>
       \/ /\ \E e \in GithubErrors : Fails(e)
          /\ UNCHANGED review_comments
    /\ UNCHANGED <<handler, name, arguments, pr_url, parsed, comments,
                   reviews, files>>

\* for review in pr.get_reviews(): one step of the loop
Reviews ==
    /\ pc = "reviews"
    /\ events' = Called("pr.get_reviews")
    /\ \/ /\ Len(reviews) < MaxItems
          /\ \E b \in BOOLEAN :
                reviews' = Append(reviews, Review(Len(reviews) + 1, b))
          /\ UNCHANGED <<pc, raised, propagated, outcome>>
       \/ /\ pc' = "files"
          /\ UNCHANGED <<reviews, raised, propagated, outcome>>
       \/ /\ \E e \in GithubErrors : Fails(e)
          /\ UNCHANGED reviews
    /\ UNCHANGED <<handler, name, arguments, pr_url, parsed, comments,
                   review_comments, files>>

\* for file in pr.get_files(): one step of the loop; the end of the loop
\* builds `content` and returns it to the handler
Files ==
    /\ pc = "files"
    /\ events' = Called("pr.get_files")
    /\ \/ /\ Len(files) < MaxItems
          /\ \E b \in BOOLEAN :
                files' = Append(files, FileChange(Len(files) + 1, b))
          /\ UNCHANGED <<pc, raised, propagated, outcome>>
       \/ /\ pc' = "fetched"
          /\ UNCHANGED <<files, raised, propagated, outcome>>
       \/ /\ \E e \in GithubErrors : Fails(e)
          /\ UNCHANGED files
    /\ UNCHANGED <<handler, name, arguments, pr_url, parsed, comments,
                   review_comments, reviews>>

\* handle_call_tool after get_pr_content has returned: format and return
CallToolFormat ==
    /\ pc = "fetched"
    /\ handler = "call_tool"
    /\ outcome' = [kind |-> "return", text |-> FormatOutput(Content)]
    /\ pc' = "done"
    /\ UNCHANGED <<handler, name, arguments, pr_url, parsed, events,
                   comments, review_comments, reviews, files, raised,
                   propagated>>

\* handle_get_prompt after get_pr_content has returned: the name is compared
GetPromptFormat ==
    /\ pc = "fetched"
    /\ handler = "get_prompt"
    /\ events' = Append(events, "compare name")
    /\ outcome' = GetPromptDispatch(name, arguments, Content)
    /\ pc' = "done"
    /\ UNCHANGED <<handler, name, arguments, pr_url, parsed, comments,
                   review_comments, reviews, files, raised, propagated>>

\* the transport sends the response; every value of the request is dropped
Respond ==
    /\ pc = "done"
    /\ pc' = "idle"
    /\ handler' = "none" /\ name' = "none"
    /\ arguments' = NoArguments
    /\ pr_url' = <<>>
    /\ parsed' = NotParsed
    /\ events' = <<>>
    /\ comments' = <<>> /\ review_comments' = <<>>
    /\ reviews' = <<>> /\ files' = <<>>
    /\ raised' = NoError /\ propagated' = NoError
    /\ outcome' = [kind |-> "none"]

Next ==
    \/ Receive
    \/ Validate
    \/ ParseUrl
    \/ GetRepo
    \/ GetPull
    \/ IssueComments
    \/ ReviewComments
    \/ Reviews
    \/ Files
    \/ CallToolFormat
    \/ GetPromptFormat
    \/ Respond

Spec == Init /\ [][Next]_vars

\* ------------------------------------------------ the parser on its own
Alphabet == {Slash, "pull", "acme", "4", "?"}

\* every text of n tokens
Urls(n) == [1..n -> Alphabet]

InitParse ==
    /\ pc = "parse_only"
    /\ \E n \in 0..MaxUrlLen : pr_url \in Urls(n)
    /\ parsed = NotParsed
    /\ handler = "none" /\ name = "none"
    /\ arguments = [none |-> TRUE, kv |-> <<>>]
    /\ events = <<>>
    /\ comments = <<>> /\ review_comments = <<>>
    /\ reviews = <<>> /\ files = <<>>
    /\ raised = NoError /\ propagated = NoError
    /\ outcome = [kind |-> "none"]

ParseOnly ==
    /\ pc = "parse_only"
    /\ parsed' = parse_pr_url(pr_url)
    /\ pc' = "parsed"
    /\ UNCHANGED <<handler, name, arguments, pr_url, events, comments,
                   review_comments, reviews, files, raised, propagated,
                   outcome>>

NextParse == ParseOnly

SpecParse == InitParse /\ [][NextParse]_vars

\* ======================================================================
\* Properties
\* ======================================================================
CollaboratorCalls ==
    {"g.get_repo", "repo.get_pull", "pr.get_issue_comments",
     "pr.get_review_comments", "pr.get_reviews", "pr.get_files"}

IsCollaboratorCall(c) == c \in CollaboratorCalls

\* the collaborator calls made so far while serving the request
CallsMade == SelectSeq(events, IsCollaboratorCall)

EventSet == {events[i] : i \in 1..Len(events)}

HasUrlForm(a) == Has(a, "pr_url") /\ a.kv["pr_url"] # <<>>

HasTripleForm(a) == Has(a, "owner") /\ Has(a, "repo") /\ Has(a, "pr_number")

ReviewRequest == handler = "call_tool" /\ name = "review-pr"

MissingArgumentErrors ==
    {ValueError(<<"Missing arguments">>), ValueError(<<"Missing PR URL">>)}

\* C1: a review-pr call that carries neither a non-empty pr_url nor the
\* triple fails with a missing-argument error, and no collaborator call
\* is made at any point of the request.
C1_MissingArgumentBeforeAnyCall ==
    (ReviewRequest /\ ~HasUrlForm(arguments) /\ ~HasTripleForm(arguments))
    => /\ CallsMade = <<>>
       /\ events = <<>>
       /\ pc \in {"validate", "done"}
       /\ pc = "done" => /\ outcome.kind = "raise"
                         /\ outcome.err \in MissingArgumentErrors

C1_Witness ==
    /\ ReviewRequest /\ pc = "done"
    /\ ~Empty(arguments)
    /\ ~HasUrlForm(arguments) /\ ~HasTripleForm(arguments)
    /\ outcome.kind = "raise"
    /\ outcome.err = ValueError(<<"Missing PR URL">>)
    /\ CallsMade = <<>>

\* C2 as stated: a review-pr call carrying the triple (owner, repo,
\* pr_number) and no pr_url passes validation and is delegated to
\* get_pr_content.
C2_TripleIsDelegated ==
    (ReviewRequest /\ pc = "done"
       /\ HasTripleForm(arguments) /\ ~HasUrlForm(arguments))
    => "get_pr_content" \in EventSet

\* C2 amended: review-pr accepts the pr_url form only.  A call with a
\* non-empty pr_url is delegated to get_pr_content with that URL; a call
\* with the triple and no pr_url fails with "Missing PR URL" and is not
\* delegated.
C2_OnlyUrlFormIsDelegated ==
    (ReviewRequest /\ pc # "validate")
    => /\ HasUrlForm(arguments)
          => /\ Len(events) >= 1 /\ events[1] = "get_pr_content"
             /\ pr_url = arguments.kv["pr_url"]
       /\ (HasTripleForm(arguments) /\ ~HasUrlForm(arguments))
          => /\ pc = "done"
             /\ outcome = [kind |-> "raise",
                           err |-> ValueError(<<"Missing PR URL">>)]
             /\ events = <<>>

C2_Witness ==
    /\ ReviewRequest /\ pc = "done"
    /\ HasTripleForm(arguments) /\ ~HasUrlForm(arguments)
    /\ outcome.kind = "raise"
    /\ outcome.err = ValueError(<<"Missing PR URL">>)
    /\ "get_pr_content" \notin EventSet

\* C3 as stated: when a collaborator call fails, the handler ends by
\* raising that same error.
C3_CollaboratorErrorReraised ==
    (pc = "done" /\ raised # NoError)
    => outcome = [kind |-> "raise", err |-> raised]

\* C3 amended: when a collaborator call fails, get_pr_content re-raises
\* that error unchanged; handle_call_tool then returns a normal result
\* whose text is "Error retrieving PR content: " followed by the error's
\* text, and handle_get_prompt raises a ValueError whose text is "Error
\* generating prompt: " followed by the error's text.
C3_CollaboratorErrorConverted ==
    (pc = "done" /\ raised # NoError)
    => /\ propagated = raised
       /\ handler = "call_tool"
          => outcome = [kind |-> "return",
                        text |-> << <<"Error retrieving PR content: ">>
                                    \o raised.msg >>]
       /\ handler = "get_prompt"
          => outcome = [kind |-> "raise",
                        err |-> [type |-> "ValueError",
                                 msg |-> <<"Error generating prompt: ">>
                                         \o raised.msg]]

C3_Witness ==
    /\ pc = "done" /\ handler = "call_tool"
    /\ raised \in GithubErrors
    /\ "repo.get_pull" \in EventSet
    /\ outcome.kind = "return"

\* every piece of text that comes from the pull request
DataTokens ==
    {PR.title, PR.body, PR.state, PR.user, PR.created_at, PR.updated_at,
     PR.mergeable_state}
    \cup {PR.labels[i] : i \in DOMAIN PR.labels}
    \cup {UserNames[i] : i \in DOMAIN UserNames}
    \cup {BodyTexts[i] : i \in DOMAIN BodyTexts}
    \cup {PathNames[i] : i \in DOMAIN PathNames}
    \cup {Stamps[i] : i \in DOMAIN Stamps}
    \cup {ReviewStates[i] : i \in DOMAIN ReviewStates}
    \cup {"@@ -1 +1 @@"}

ContainsPRData(text) ==
    \E i \in 1..Len(text) : \E j \in 1..Len(text[i]) :
        text[i][j] \in DataTokens

FetchEvents ==
    <<"get_pr_content", "parse_pr_url", "g.get_repo", "repo.get_pull",
      "pr.get_issue_comments", "pr.get_review_comments", "pr.get_reviews",
      "pr.get_files">>

\* C4: the response of review-pr holds PR data only when every step of
\* get_pr_content has succeeded; when a step has failed the response
\* holds none of the data fetched before the failure.
C4_NoPartialSuccess ==
    (ReviewRequest /\ pc = "done")
    => /\ propagated # NoError
          => /\ outcome.kind = "return"
             /\ ~ContainsPRData(outcome.text)
       /\ (outcome.kind = "return" /\ ContainsPRData(outcome.text))
          => /\ propagated = NoError /\ raised = NoError
             /\ events = FetchEvents

C4_Witness ==
    /\ ReviewRequest /\ pc = "done"
    /\ raised \in GithubErrors
    /\ Len(comments) >= 1 /\ Len(reviews) >= 1
    /\ outcome.kind = "return"
    /\ ~ContainsPRData(outcome.text)

Occurrences(text, line) == Cardinality({i \in 1..Len(text) : text[i] = line})

Position(text, line) == CHOOSE i \in 1..Len(text) : text[i] = line

\* the second token of the lines lo+1..hi-1 of text that start with prefix
EntriesBetween(text, lo, hi, prefix) ==
    LET StartsEntry(line) == line[1] = prefix
        sel == SelectSeq(SubSeq(text, lo + 1, hi - 1), StartsEntry)
    IN  [i \in 1..Len(sel) |-> sel[i][2]]

\* C5: the text of review-pr holds, for every snapshot, the header
\* (title, author, state), then the reviews section, then the comments
\* section, then the review comments section, then the modified files
\* section, each exactly once, with the entries of a section in the
\* order of the snapshot's list.
C5_SectionsInFixedOrder ==
    (ReviewRequest /\ pc = "done" /\ propagated = NoError
       /\ outcome.kind = "return")
    => LET t == outcome.text
           r == Position(t, ReviewsHeader)
           c == Position(t, CommentsHeader)
           rc == Position(t, ReviewCommentsHeader)
           f == Position(t, FilesHeader)
       IN  /\ Occurrences(t, ReviewsHeader) = 1
           /\ Occurrences(t, CommentsHeader) = 1
           /\ Occurrences(t, ReviewCommentsHeader) = 1
           /\ Occurrences(t, FilesHeader) = 1
           /\ t[1] = <<"PR Title: ", PR.title, "\n">>
           /\ t[2] = <<"Author: ", PR.user>>
           /\ t[3] = <<"State: ", PR.state>>
           /\ 3 < r /\ r < c /\ c < rc /\ rc < f
           /\ EntriesBetween(t, 0, r, "- ") = <<>>
           /\ EntriesBetween(t, r, c, "- ")
                 = [i \in 1..Len(reviews) |-> reviews[i].user]
           /\ EntriesBetween(t, c, rc, "- ")
                 = [i \in 1..Len(comments) |-> comments[i].user]
           /\ EntriesBetween(t, rc, f, "- ")
                 = [i \in 1..Len(review_comments) |->
                       review_comments[i].user]
           /\ EntriesBetween(t, f, Len(t) + 1, "- ") = <<>>
           /\ EntriesBetween(t, f, Len(t) + 1, "\nFile: ")
                 = [i \in 1..Len(files) |-> files[i].filename]
           /\ EntriesBetween(t, 0, f, "\nFile: ") = <<>>

C5_Witness ==
    /\ ReviewRequest /\ pc = "done" /\ propagated = NoError
    /\ outcome.kind = "return"
    /\ reviews = <<>>
    /\ Len(comments) = 2
    /\ Len(files) = 1
    /\ ContainsPRData(outcome.text)

\* ------------------------------------------------- properties of the parser
Parts(u) == Split(u)

LastPart(u) == Parts(u)[Len(Parts(u))]

IsIntegerText(seg) ==
    /\ Len(seg) >= 1
    /\ \A i \in 1..Len(seg) : seg[i] \in Digits

NoQuery(seg) == \A i \in 1..Len(seg) : seg[i] # "?"

\* .../<owner>/<repo>/pull/<number>
WellFormed(u) ==
    LET p == Parts(u)
        n == Len(p)
    IN  /\ n >= 4
        /\ IsIntegerText(p[n])
        /\ p[n - 1] = <<"pull">>
        /\ p[n - 2] # <<>> /\ NoQuery(p[n - 2])
        /\ p[n - 3] # <<>> /\ NoQuery(p[n - 3])

Identifier(u) ==
    LET p == Parts(u)
        n == Len(p)
    IN  [ok |-> TRUE, owner |-> p[n - 3], repo |-> p[n - 2],
         pr_number |-> DigitsValue(p[n], 0)]

\* u is a well-formed URL followed by a trailing slash or a query string
Decorated(u, k) ==
    /\ k < Len(u)
    /\ WellFormed(SubSeq(u, 1, k))
    /\ \/ k + 1 = Len(u) /\ u[k + 1] = Slash
       \/ u[k + 1] = "?"

\* C6: parse_pr_url gives (owner, repo, number) for a well-formed PR URL,
\* and gives the same triple when a trailing slash or a query string is
\* appended to it.
C6_SameIdentifierWithSlashOrQuery ==
    pc = "parsed"
    => /\ WellFormed(pr_url) => parsed = Identifier(pr_url)
       /\ \A k \in 1..Len(pr_url) :
             Decorated(pr_url, k) => parsed = Identifier(SubSeq(pr_url, 1, k))

\* C7: parse_pr_url fails for every URL whose second-to-last segment is
\* not the literal "pull".
C7_RejectsUrlWithoutPull ==
    pc = "parsed"
    => LET p == Parts(pr_url)
           n == Len(p)
       IN  (n < 2 \/ p[n - 1] # <<"pull">>) => ~parsed.ok

\* C8: parse_pr_url fails with ValueError "Invalid PR URL format" for
\* every input of fewer than 4 segments and for every input whose last
\* segment is not an integer.
C8_RejectsShortOrNonNumeric ==
    pc = "parsed"
    => ((Len(Parts(pr_url)) < 4 \/ ~IsIntegerText(LastPart(pr_url)))
        => /\ ~parsed.ok
           /\ parsed.err.type = "ValueError"
           /\ parsed.err.msg[1] = "Invalid PR URL format: ")

C8_Witness ==
    /\ pc = "parsed"
    /\ Len(Parts(pr_url)) = 3
    /\ IsIntegerText(LastPart(pr_url))
    /\ ~parsed.ok
    /\ parsed.err.type = "ValueError"

\* ------------------------------------------------------- unknown names
UnknownName ==
    \/ handler = "call_tool" /\ name \notin ToolNames
    \/ handler = "get_prompt" /\ name \notin PromptNames

Mentions(err, n) == \E i \in 1..Len(err.msg) : err.msg[i] = n

\* C9 as stated: a request that names an unknown operation or prompt
\* ends, for every value of its arguments, in an error that reports the
\* unknown name.
C9_UnknownNameReported ==
    (pc = "done" /\ UnknownName)
    => /\ outcome.kind = "raise"
       /\ Mentions(outcome.err, name)

\* C9 amended: a request that names an unknown operation or prompt ends
\* by raising a ValueError and never produces a result.  The error
\* reports the unknown name when, for a tool, the arguments are not
\* empty and, for a prompt, the arguments hold pr_url and the fetch of
\* the PR has succeeded; otherwise it is the missing-argument error or
\* the wrapped error of the fetch.
C9_UnknownNameRaises ==
    (pc = "done" /\ UnknownName)
    => /\ outcome.kind = "raise"
       /\ outcome.err.type = "ValueError"
       /\ handler = "call_tool"
          => /\ CallsMade = <<>>
             /\ outcome.err = IF Empty(arguments)
                              THEN ValueError(<<"Missing arguments">>)
                              ELSE ValueError(<<"Unknown tool: ", name>>)
       /\ handler = "get_prompt"
          => outcome.err =
               IF ~Has(arguments, "pr_url")
               THEN ValueError(<<"Missing PR URL argument">>)
               ELSE IF propagated # NoError
               THEN ValueError(<<"Error generating prompt: ">>
                               \o propagated.msg)
               ELSE ValueError(<<"Error generating prompt: ",
                                 "Unknown prompt: ", name>>)

C9_Witness ==
    /\ pc = "done" /\ handler = "get_prompt" /\ name = "bogus"
    /\ propagated = NoError
    /\ events = Append(FetchEvents, "compare name")
    /\ outcome.kind = "raise"
    /\ Mentions(outcome.err, "bogus")

\* C10: in handle_get_prompt a request whose arguments hold pr_url runs
\* get_pr_content first; the name is compared only after the whole fetch
\* has succeeded; every failure after the argument check leaves as a
\* ValueError "Error generating prompt: ...", never as the original
\* error and never as a result.
C10_NameExaminedAfterFetch ==
    (handler = "get_prompt" /\ pc # "validate" /\ Has(arguments, "pr_url"))
    => /\ Len(events) >= 1 /\ events[1] = "get_pr_content"
       /\ "compare name" \in EventSet
          => /\ events = Append(FetchEvents, "compare name")
             /\ propagated = NoError /\ raised = NoError
       /\ pc = "done"
          => IF propagated = NoError /\ name \in PromptNames
             THEN outcome.kind = "return"
             ELSE /\ outcome.kind = "raise"
                  /\ outcome.err.type = "ValueError"
                  /\ outcome.err.msg[1] = "Error generating prompt: "
                  /\ outcome.err # propagated
                  /\ propagated # NoError
                     => /\ outcome.err.msg
                             = <<"Error generating prompt: ">>
                               \o propagated.msg
                        /\ "compare name" \notin EventSet

C10_Witness ==
    /\ handler = "get_prompt" /\ pc = "done" /\ name = "bogus"
    /\ Has(arguments, "pr_url")
    /\ events = Append(FetchEvents, "compare name")
    /\ Len(files) >= 1
    /\ outcome.kind = "raise"
    /\ outcome.err.msg = <<"Error generating prompt: ", "Unknown prompt: ",
                           "bogus">>

====
